---- MODULE Spec2Model ----
(***************************************************************************)
(* State-machine model of ny-plumber-voice-agent: src/server.ts (startup,  *)
(* the four tools, the /media-stream handler) and leadStore (the two       *)
(* append-only JSONL files).                                               *)
(*                                                                         *)
(* JavaScript runs one callback to completion before the next one starts.  *)
(* A tool's execute function is modelled statement by statement; the       *)
(* variable `running` holds the call whose synchronous segment is being    *)
(* executed, and no other callback may start until it reaches an await or  *)
(* returns.                                                                *)
(***************************************************************************)
EXTENDS Integers, Sequences, FiniteSets, TLC

VARIABLES
    env,       \* process.env, read once at module load
    proc,      \* "starting" | "serving" | "exited"
    fs,        \* data/ directory, data/leads.jsonl, data/events.jsonl
    now,       \* the wall clock read by new Date(); held still, no claim
               \* depends on how far it advances between two reads
    uuids,     \* number of identifiers randomUUID() has handed out
    sess,      \* per audio channel: the /media-stream handler's objects
    calls,     \* tool invocations, in the order the sessions made them
    running,   \* index of the call executing synchronously, 0 when idle
    gateway,   \* requests issued through twilioClient.messages.create
    emits,     \* number of events the realtime session has emitted
    faults,    \* number of storage faults injected so far
    limit,     \* what the environment may do in this run (see Scenarios)
    evBy       \* history: for each line of events.jsonl, the call (0 for
               \* the bridge itself) and the session that appended it

vars == <<env, proc, fs, now, uuids, sess, calls, running, gateway, emits,
          faults, limit, evBy>>

-----------------------------------------------------------------------------
(* Bounds of the model                                                     *)

MaxSessions == 2   \* audio channels accepted
MaxCalls == 2      \* tool invocations, over all sessions
MaxEmits == 1      \* events emitted by the realtime sessions
MaxCloses == 1     \* close notifications per audio channel
MaxFaults == 1     \* storage writes that raise

Sessions == 1..MaxSessions

\* A run is one call session in a hostile environment (emitted events,
\* channel closes, storage faults), or MaxSessions concurrent sessions in
\* a calm one, or MaxSessions sessions with emitted events and storage
\* faults and one tool invocation fewer. The product of all is out of
\* reach of exhaustive search; every action is enabled in the first kind
\* of run.
Scenarios ==
    {[sessions |-> 1, calls |-> MaxCalls, emits |-> MaxEmits,
      closes |-> MaxCloses, faults |-> MaxFaults],
     [sessions |-> MaxSessions, calls |-> MaxCalls, emits |-> 0,
      closes |-> 0, faults |-> 0],
     [sessions |-> MaxSessions, calls |-> MaxCalls - 1, emits |-> MaxEmits,
      closes |-> 0, faults |-> MaxFaults]}

-----------------------------------------------------------------------------
(* Values                                                                  *)

\* JavaScript's undefined, as the value of an object key or an unset env var
Undef == "undefined"

Truthy(v) == v # Undef /\ v # ""

Min(a, b) == IF a < b THEN a ELSE b

\* String.prototype.slice(from, to) for 0 <= from <= to
Slice(s, from, to) == SubSeq(s, from + 1, Min(to, Len(s)))

\* String.prototype.startsWith
StartsWith(s, p) == Len(s) >= Len(p) /\ SubSeq(s, 1, Len(p)) = p

RECURSIVE Repeat(_, _)
Repeat(s, n) ==
    IF n = 0 THEN ""
    ELSE LET half == Repeat(s, n \div 2)
         IN  IF n % 2 = 0 THEN half \o half ELSE half \o half \o s

\* JSON.stringify of a flat object: keys whose value is undefined are dropped
JsonStringify(obj) ==
    [k \in {kk \in DOMAIN obj : obj[kk] # Undef} |-> obj[k]]

\* Date.prototype.toISOString, on the model's clock
ToISOString(t) == "T" \o ToString(t)

\* node:crypto randomUUID(): the n-th identifier drawn; the generator is
\* taken never to repeat a value
randomUUID(n) == "uuid-" \o ToString(n)

\* backgroundResult(text): what execute returns; Throw: what it raises
backgroundResult(text) == [kind |-> "returned", text |-> text]
Throw(text) == [kind |-> "threw", text |-> text]
Pending == [kind |-> "pending", text |-> ""]

-----------------------------------------------------------------------------
(* Configuration: server.ts lines 22-44                                    *)

MutMustEnvAcceptsEmpty(name) == env[name] # Undef

\* mustEnv(name) returns (TRUE) or exits the process (FALSE)
mustEnvOk(name) == Truthy(env[name])

BUSINESS_NAME ==
    IF Truthy(env.BUSINESS_NAME) THEN env.BUSINESS_NAME
    ELSE "NY Plumbing (Pilot)"

ONCALL_PHONE == env.ONCALL_PHONE

TWILIO_FROM_NUMBER == IF Truthy(env.TWILIO_FROM_NUMBER)
                      THEN env.TWILIO_FROM_NUMBER ELSE ""

\* TRUE when the client object was constructed, FALSE when it is null
twilioClient ==
    Truthy(env.TWILIO_ACCOUNT_SID) /\ Truthy(env.TWILIO_AUTH_TOKEN)

MutGatewayIgnoresFrom == twilioClient

\* the negation of the guard `!twilioClient || !TWILIO_FROM_NUMBER`
GatewayConfigured == twilioClient /\ TWILIO_FROM_NUMBER # ""

MutAssertE164NoLength(phone) == StartsWith(phone, "+")

\* assertE164: TRUE when it returns, FALSE when it throws
assertE164(phone) == ~(~StartsWith(phone, "+") \/ Len(phone) < 11)

E164Error == "Phone must be E.164 format like +15551234567"

-----------------------------------------------------------------------------
(* leadStore: data/leads.jsonl and data/events.jsonl                       *)

NoFile == [exists |-> FALSE, data |-> <<>>]

\* one appendFileSync payload: JSON.stringify(x) + "\n"
Line(obj) == [json |-> JsonStringify(obj), eol |-> "\n"]

MutEnsureDataDirTruncates(f) ==
    [f EXCEPT !.dir = TRUE, !.leads = [exists |-> TRUE, data |-> <<>>]]

\* ensureDataDir: mkdir when the directory is missing, and create an empty
\* leads file only when there is none
ensureDataDir(f) ==
    LET g == IF ~f.dir THEN [f EXCEPT !.dir = TRUE] ELSE f
    IN  IF ~g.leads.exists
        THEN [g EXCEPT !.leads = [exists |-> TRUE, data |-> <<>>]]
        ELSE g

MutAppendFilePrepends(file, text) ==
    [exists |-> TRUE, data |-> <<text>> \o file.data]

\* fs.appendFileSync(file, text): creates the file when missing
appendFileSync(file, text) ==
    [exists |-> TRUE, data |-> file.data \o <<text>>]

MutAppendLeadOverwrites(lead) ==
    LET g == ensureDataDir(fs)
    IN  [g EXCEPT !.leads = [exists |-> TRUE, data |-> <<Line(lead)>>]]

\* appendLead(lead): the file system after the call returned
appendLead(lead) ==
    LET g == ensureDataDir(fs)
    IN  [g EXCEPT !.leads = appendFileSync(g.leads, Line(lead))]

MutAppendEventRewrites(event) ==
    LET g == ensureDataDir(fs)
    IN  [g EXCEPT !.events =
            [exists |-> TRUE,
             data |-> <<Line(event @@ [ts |-> ToISOString(now)])>>]]

\* appendEvent(event): { ts, ...event }, the event's keys win over ts
appendEvent(event) ==
    LET g == ensureDataDir(fs)
    IN  [g EXCEPT !.events =
            appendFileSync(g.events, Line(event @@ [ts |-> ToISOString(now)]))]

\* the file system when appendFileSync raised: ensureDataDir already ran
appendFailed == ensureDataDir(fs)

\* the outcomes of one storage write: TRUE written, FALSE the write raised
DiskOutcomes == IF faults < limit.faults THEN {TRUE, FALSE} ELSE {TRUE}

StorageError == "EIO: write failed"

Leads == fs.leads.data
Events == fs.events.data

-----------------------------------------------------------------------------
(* Tool argument schemas: the z.object(...) declarations                   *)

Urgencies == {"low", "normal", "emergency"}

LeadKeys == {"callerPhone", "callerName", "serviceAddress", "issue",
             "urgency", "preferredTime", "notes"}

EscalateKeys == {"callerPhone", "serviceAddress", "issue", "reason"}

SmsMaxLen == 480
SummaryMaxLen == 2000
PreviewLen == 80

\* obj restricted to the declared keys (zod strips unknown keys)
Strip(obj, keys) == [k \in (DOMAIN obj) \cap keys |-> obj[k]]

\* the value of an optional key, undefined when absent
Get(obj, k) == IF k \in DOMAIN obj THEN obj[k] ELSE Undef

createLeadSchemaOk(raw) ==
    "urgency" \in DOMAIN raw => raw.urgency \in Urgencies

MutCreateLeadParsePassthrough(raw) == raw @@ [urgency |-> "normal"]

\* z.object(...) keeps the declared keys only; .default("normal") fills in
\* urgency when the key is absent
createLeadParse(raw) ==
    Strip(raw, LeadKeys) @@ [urgency |-> "normal"]

sendSmsSchemaOk(raw) ==
    /\ {"to", "message"} \subseteq DOMAIN raw
    /\ Len(raw.message) <= SmsMaxLen

sendSmsParse(raw) == Strip(raw, {"to", "message"})

escalateSchemaOk(raw) == TRUE

escalateParse(raw) == Strip(raw, EscalateKeys) @@ [reason |-> "emergency"]

logSummarySchemaOk(raw) ==
    /\ "summary" \in DOMAIN raw
    /\ Len(raw.summary) <= SummaryMaxLen

logSummaryParse(raw) == Strip(raw, {"summary"})

Tools == {"create_lead", "send_sms_to_number", "escalate_to_oncall",
          "log_call_summary"}

MutSchemaUnchecked(tool, raw) ==
    CASE tool = "create_lead" -> TRUE
      [] tool = "send_sms_to_number" -> {"to", "message"} \subseteq DOMAIN raw
      [] tool = "escalate_to_oncall" -> TRUE
      [] tool = "log_call_summary" -> "summary" \in DOMAIN raw

\* the SDK parses the arguments with the tool's schema before it calls
\* execute
SchemaOk(tool, raw) ==
    CASE tool = "create_lead" -> createLeadSchemaOk(raw)
      [] tool = "send_sms_to_number" -> sendSmsSchemaOk(raw)
      [] tool = "escalate_to_oncall" -> escalateSchemaOk(raw)
      [] tool = "log_call_summary" -> logSummarySchemaOk(raw)

Parse(tool, raw) ==
    CASE tool = "create_lead" -> createLeadParse(raw)
      [] tool = "send_sms_to_number" -> sendSmsParse(raw)
      [] tool = "escalate_to_oncall" -> escalateParse(raw)
      [] tool = "log_call_summary" -> logSummaryParse(raw)

\* the first statement of each execute function
FirstPc(tool) ==
    CASE tool = "create_lead" -> "build"
      [] tool = "send_sms_to_number" -> "assert"
      [] tool = "escalate_to_oncall" -> "log"
      [] tool = "log_call_summary" -> "log"

SchemaError == "Invalid tool arguments"

-----------------------------------------------------------------------------
(* Inputs the environment supplies                                         *)

GoodPhone == "+15551234567"
CallerPhone == "+19175550100"


ShortMessage == "Tech arrives 9am"
LongMessage == Repeat("0123456789", 8) \o "X"

BaseEnv == [ONCALL_PHONE |-> GoodPhone, OPENAI_API_KEY |-> "sk-key",
            BUSINESS_NAME |-> Undef,
            TWILIO_ACCOUNT_SID |-> "ACxxxx", TWILIO_AUTH_TOKEN |-> "token",
            TWILIO_FROM_NUMBER |-> "+12125550000"]

Envs == {BaseEnv,
         [BaseEnv EXCEPT !.ONCALL_PHONE = "5551234567"],
         [BaseEnv EXCEPT !.TWILIO_ACCOUNT_SID = Undef,
                         !.TWILIO_AUTH_TOKEN = Undef,
                         !.TWILIO_FROM_NUMBER = Undef],
         [BaseEnv EXCEPT !.TWILIO_FROM_NUMBER = ""],
         [BaseEnv EXCEPT !.ONCALL_PHONE = Undef],
         [BaseEnv EXCEPT !.ONCALL_PHONE = ""],
         [BaseEnv EXCEPT !.OPENAI_API_KEY = Undef],
         [BaseEnv EXCEPT !.OPENAI_API_KEY = ""]}

\* no argument at all; the lead of Scenario A; an urgency outside the
\* enum; arguments that also name the keys the tool assigns itself
LeadArgs == {<<>>,
             [urgency |-> "emergency", serviceAddress |-> "12 Elm St",
              issue |-> "burst pipe", callerPhone |-> CallerPhone],
             [urgency |-> "huge"],
             [callerName |-> "Ann", id |-> "lead-0", createdAt |-> "1999",
              businessName |-> "Other Co", source |-> "web"]}

\* destination numbers: two well-formed ones (12 and 11 characters) and
\* three malformed ones (no plus; plus but 10 characters; 11 without plus)
SmsArgs == {[to |-> GoodPhone, message |-> ShortMessage],
            [to |-> "+5551234567", message |-> LongMessage],
            [to |-> "5551234567", message |-> ShortMessage],
            [to |-> "+555123456", message |-> LongMessage],
            [to |-> "15551234567", message |-> ShortMessage],
            [to |-> GoodPhone, message |-> Repeat("m", SmsMaxLen + 1)]}

EscalateArgs == {[reason |-> "emergency", issue |-> "burst pipe",
                  serviceAddress |-> "12 Elm St"],
                 [callerPhone |-> CallerPhone]}

SummaryArgs == {[summary |-> "Burst pipe at 12 Elm St, escalated"],
                [summary |-> Repeat("s", SummaryMaxLen + 1)]}

RawArgs(tool) ==
    CASE tool = "create_lead" -> LeadArgs
      [] tool = "send_sms_to_number" -> SmsArgs
      [] tool = "escalate_to_oncall" -> EscalateArgs
      [] tool = "log_call_summary" -> SummaryArgs

\* transport events as the session hands them to the listener
TransportEvts == {[type |-> "media"], <<>>}

-----------------------------------------------------------------------------
(* Initial state: the process has been launched, nothing has run yet       *)

\* conn: the backend connection; listeners: the subscriptions made with
\* session.on; handler: the route handler's promise; closes: close
\* notifications of the audio channel; errors: error events delivered;
\* uncaught: an exception left a listener
NoSession == [conn |-> "none", listeners |-> {}, handler |-> "none",
              closes |-> 0, errors |-> 0, uncaught |-> FALSE]

Init ==
    /\ env \in Envs
    /\ proc = "starting"
    /\ fs = [dir |-> FALSE, leads |-> NoFile, events |-> NoFile]
    /\ now = 0
    /\ uuids = 0
    /\ sess = [s \in Sessions |-> NoSession]
    /\ calls = <<>>
    /\ running = 0
    /\ gateway = <<>>
    /\ emits = 0
    /\ faults = 0
    /\ limit \in Scenarios
    /\ evBy = <<>>

Idle == proc = "serving" /\ running = 0

\* what has happened so far that the bridge is to log: tool invocations,
\* emitted events, connections established
Occurred ==
    Len(calls) + emits + Cardinality({t \in Sessions : sess[t].conn = "connected"})

\* history bookkeeping: one entry per line the step added to events.jsonl;
\* `at` is the place of the triggering occurrence among all occurrences
Recorded(c, s) ==
    evBy' = IF Len(fs'.events.data) >= Len(Events)
            THEN evBy \o [i \in 1..(Len(fs'.events.data) - Len(Events)) |->
                             [call |-> c, sess |-> s,
                              at |-> IF c = 0 THEN Occurred + 1
                                     ELSE calls[c].at]]
            ELSE SubSeq(evBy, 1, Len(fs'.events.data))

\* one storage write by `who`: either it is done, or appendFileSync raises
Write(written, ok) ==
    /\ fs' = IF ok THEN written ELSE appendFailed
    /\ faults' = IF ok THEN faults ELSE faults + 1

-----------------------------------------------------------------------------
(* Module load: mustEnv, then fastify.listen                               *)

Startup ==
    /\ proc = "starting"
    /\ \E listenOk \in BOOLEAN :
         proc' = IF mustEnvOk("ONCALL_PHONE") /\ mustEnvOk("OPENAI_API_KEY")
                    /\ listenOk
                 THEN "serving" ELSE "exited"
    /\ UNCHANGED <<env, fs, now, uuids, sess, calls, running, gateway,
                   emits, faults, limit, evBy>>

-----------------------------------------------------------------------------
(* The /media-stream handler and its two listeners                         *)

\* lines 225-249: transport and session are built, both listeners are
\* registered, session.connect is started and awaited. Channels are
\* numbered in the order they are accepted.
AcceptChannel(s) ==
    /\ Idle
    /\ sess[s].conn = "none"
    /\ s <= limit.sessions
    /\ \A t \in Sessions : t < s => sess[t].conn # "none"
    /\ sess' = [sess EXCEPT ![s].conn = "connecting",
                            ![s].listeners = {"transport_event", "error"},
                            ![s].handler = "awaiting"]
    /\ UNCHANGED <<env, proc, fs, now, uuids, calls, running, gateway,
                   emits, faults, limit, evBy>>

\* line 250: connect resolved, the handler logs realtime_connected
ConnectOk(s) ==
    /\ Idle
    /\ sess[s].conn = "connecting"
    /\ \E ok \in DiskOutcomes :
         /\ Write(appendEvent([type |-> "realtime_connected"]), ok)
         /\ sess' = [sess EXCEPT ![s].conn = "connected",
                                 ![s].handler =
                                     IF ok THEN "returned" ELSE "rejected"]
    /\ Recorded(0, s)
    /\ UNCHANGED <<env, proc, now, uuids, calls, running, gateway, emits, limit>>

MutConnectFailLogs(s) ==
    /\ Idle
    /\ sess[s].conn = "connecting"
    /\ \E ok \in DiskOutcomes :
         Write(appendEvent([type |-> "realtime_connected"]), ok)
    /\ sess' = [sess EXCEPT ![s].conn = "failed", ![s].handler = "rejected"]
    /\ Recorded(0, s)
    /\ UNCHANGED <<env, proc, now, uuids, calls, running, gateway, emits, limit>>

\* line 249: connect rejected, the handler's promise rejects
ConnectFail(s) ==
    /\ Idle
    /\ sess[s].conn = "connecting"
    /\ sess' = [sess EXCEPT ![s].conn = "failed", ![s].handler = "rejected"]
    /\ UNCHANGED <<env, proc, fs, now, uuids, calls, running, gateway,
                   emits, faults, limit, evBy>>

\* lines 238-242
TransportEvent(s, evt) ==
    /\ Idle
    /\ "transport_event" \in sess[s].listeners
    /\ emits < limit.emits
    /\ emits' = emits + 1
    /\ \E ok \in DiskOutcomes :
         /\ Write(appendEvent([type |-> "transport_event",
                               evtType |-> IF Truthy(Get(evt, "type"))
                                           THEN evt.type ELSE "unknown"]), ok)
         /\ sess' = [sess EXCEPT ![s].uncaught = @ \/ ~ok]
    /\ Recorded(0, s)
    /\ UNCHANGED <<env, proc, now, uuids, calls, running, gateway, limit>>

\* lines 244-246
SessionError(s, err) ==
    /\ Idle
    /\ "error" \in sess[s].listeners
    /\ emits < limit.emits
    /\ emits' = emits + 1
    /\ \E ok \in DiskOutcomes :
         /\ Write(appendEvent([type |-> "session_error", err |-> err]), ok)
         /\ sess' = [sess EXCEPT ![s].uncaught = @ \/ ~ok,
                                 ![s].errors = @ + 1]
    /\ Recorded(0, s)
    /\ UNCHANGED <<env, proc, now, uuids, calls, running, gateway, limit>>

\* the audio channel closes (either side); the handler registers nothing
\* on the connection, so no code of the bridge runs
ChannelClose(s) ==
    /\ Idle
    /\ sess[s].conn # "none"
    /\ sess[s].closes < limit.closes
    /\ sess' = [sess EXCEPT ![s].closes = @ + 1]
    /\ UNCHANGED <<env, proc, fs, now, uuids, calls, running, gateway,
                   emits, faults, limit, evBy>>

-----------------------------------------------------------------------------
(* Tool invocation: the session parses the arguments against the tool's    *)
(* schema and calls execute                                                *)

\* raw: the arguments as the backend sent them; input: as parsed; at: the
\* invocation's place among the occurrences (history)
NewCall(s, tool, raw, input, pc, result) ==
    [sess |-> s, tool |-> tool, raw |-> raw, input |-> input, pc |-> pc,
     result |-> result, lead |-> <<>>, at |-> Occurred + 1]

\* The tools are module-level objects shared by every session; execute
\* receives the parsed arguments only and checks no session state.
ToolInvoke(s, tool, raw) ==
    /\ Idle
    /\ sess[s].conn = "connected"
    /\ Len(calls) < limit.calls
    /\ IF SchemaOk(tool, raw)
       THEN /\ calls' = Append(calls, NewCall(s, tool, raw, Parse(tool, raw),
                                              FirstPc(tool), Pending))
            /\ running' = Len(calls) + 1
       ELSE /\ calls' = Append(calls, NewCall(s, tool, raw, raw, "done",
                                              Throw(SchemaError)))
            /\ running' = 0
    /\ UNCHANGED <<env, proc, fs, now, uuids, sess, gateway, emits, faults,
                   limit, evBy>>

Cur == calls[running]

At(tool, pc) ==
    /\ proc = "serving"
    /\ running # 0
    /\ Cur.tool = tool
    /\ Cur.pc = pc

Goto(pc) ==
    /\ calls' = [calls EXCEPT ![running].pc = pc]
    /\ UNCHANGED running

Finish(result) ==
    /\ calls' = [calls EXCEPT ![running].pc = "done",
                              ![running].result = result]
    /\ running' = 0

Suspend ==
    /\ calls' = [calls EXCEPT ![running].pc = "await"]
    /\ running' = 0

-----------------------------------------------------------------------------
(* create_lead: lines 68-82                                                *)

\* the object literal of lines 70-76: later keys win over earlier ones
BuildLead(id, input) ==
    [source |-> "twilio_call"] @@ input @@
    [id |-> id, createdAt |-> ToISOString(now), businessName |-> BUSINESS_NAME]

CreateLeadBuild ==
    /\ At("create_lead", "build")
    /\ uuids' = uuids + 1
    /\ calls' = [calls EXCEPT
                   ![running].lead = BuildLead(randomUUID(uuids + 1), Cur.input),
                   ![running].pc = "append"]
    /\ UNCHANGED <<env, proc, fs, now, sess, running, gateway, emits,
                   faults, evBy, limit>>

MutCreateLeadAppendSwallows ==
    /\ At("create_lead", "append")
    /\ \E ok \in DiskOutcomes :
         /\ Write(appendLead(Cur.lead), ok)
         /\ Goto("return")
    /\ Recorded(running, Cur.sess)
    /\ UNCHANGED <<env, proc, now, uuids, sess, gateway, emits, limit>>

\* line 78: appendLead is called bare, so what it throws leaves execute
CreateLeadAppend ==
    /\ At("create_lead", "append")
    /\ \E ok \in DiskOutcomes :
         /\ Write(appendLead(Cur.lead), ok)
         /\ IF ok THEN Goto("return") ELSE Finish(Throw(StorageError))
    /\ Recorded(running, Cur.sess)
    /\ UNCHANGED <<env, proc, now, uuids, sess, gateway, emits, limit>>

CreateLeadReturn ==
    /\ At("create_lead", "return")
    /\ Finish(backgroundResult("Lead stored with id " \o Cur.lead.id))
    /\ UNCHANGED <<env, proc, fs, now, uuids, sess, gateway, emits, faults,
                   limit, evBy>>

-----------------------------------------------------------------------------
(* send_sms_to_number: lines 93-109                                        *)

SmsSkipped == "Twilio not configured; SMS skipped."
OptOutSuffix == "\n\nReply STOP to opt out."

MutPreviewWholeMessage(message) == message

\* message.slice(0, 80)
MessagePreview(message) == Slice(message, 0, PreviewLen)

SmsAttemptEvent(input) ==
    [type |-> "sms_attempt", to |-> input.to,
     messagePreview |-> MessagePreview(input.message)]

\* the argument of twilioClient.messages.create on line 102
SmsRequest(input) ==
    [from |-> TWILIO_FROM_NUMBER, to |-> input.to,
     body |-> input.message \o OptOutSuffix]

SendSmsAssert ==
    /\ At("send_sms_to_number", "assert")
    /\ IF assertE164(Cur.input.to)
       THEN Goto("log")
       ELSE Finish(Throw(E164Error))
    /\ UNCHANGED <<env, proc, fs, now, uuids, sess, gateway, emits, faults,
                   limit, evBy>>

SendSmsLog ==
    /\ At("send_sms_to_number", "log")
    /\ \E ok \in DiskOutcomes :
         /\ Write(appendEvent(SmsAttemptEvent(Cur.input)), ok)
         /\ IF ok THEN Goto("gate") ELSE Finish(Throw(StorageError))
    /\ Recorded(running, Cur.sess)
    /\ UNCHANGED <<env, proc, now, uuids, sess, gateway, emits, limit>>

\* lines 98-106: return the skipped result, or start the request and await
SendSmsGate ==
    /\ At("send_sms_to_number", "gate")
    /\ IF ~GatewayConfigured
       THEN /\ Finish(backgroundResult(SmsSkipped))
            /\ UNCHANGED gateway
       ELSE /\ gateway' = Append(gateway,
                  [call |-> running, state |-> "pending",
                   msg |-> SmsRequest(Cur.input)])
            /\ Suspend
    /\ UNCHANGED <<env, proc, fs, now, uuids, sess, emits, faults, limit,
                   evBy>>

-----------------------------------------------------------------------------
(* escalate_to_oncall: lines 122-143                                       *)

EscalationSkipped == "Twilio not configured; escalation SMS skipped."

EscalationEvent(input) ==
    [type |-> "escalation", reason |-> input.reason,
     callerPhone |-> Get(input, "callerPhone"),
     serviceAddress |-> Get(input, "serviceAddress"),
     issue |-> Get(input, "issue")]

\* lines 129-134; the siren emoji that opens the text is written "(!)"
AlertBody(input) ==
    "(!) EMERGENCY LEAD (" \o BUSINESS_NAME \o ")\n" \o
    "Reason: " \o input.reason \o "\n" \o
    (IF Truthy(Get(input, "issue"))
     THEN "Issue: " \o input.issue \o "\n" ELSE "") \o
    (IF Truthy(Get(input, "serviceAddress"))
     THEN "Address: " \o input.serviceAddress \o "\n" ELSE "") \o
    (IF Truthy(Get(input, "callerPhone"))
     THEN "Caller: " \o input.callerPhone \o "\n" ELSE "")

MutEscalationToCaller(input) ==
    [from |-> TWILIO_FROM_NUMBER,
     to |-> IF Truthy(Get(input, "callerPhone"))
            THEN input.callerPhone ELSE ONCALL_PHONE,
     body |-> AlertBody(input)]

\* the argument of twilioClient.messages.create on line 136
EscalationRequest(input) ==
    [from |-> TWILIO_FROM_NUMBER, to |-> ONCALL_PHONE,
     body |-> AlertBody(input)]

EscalateLog ==
    /\ At("escalate_to_oncall", "log")
    /\ \E ok \in DiskOutcomes :
         /\ Write(appendEvent(EscalationEvent(Cur.input)), ok)
         /\ IF ok THEN Goto("gate") ELSE Finish(Throw(StorageError))
    /\ Recorded(running, Cur.sess)
    /\ UNCHANGED <<env, proc, now, uuids, sess, gateway, emits, limit>>

EscalateGate ==
    /\ At("escalate_to_oncall", "gate")
    /\ IF ~GatewayConfigured
       THEN /\ Finish(backgroundResult(EscalationSkipped))
            /\ UNCHANGED gateway
       ELSE /\ gateway' = Append(gateway,
                  [call |-> running, state |-> "pending",
                   msg |-> EscalationRequest(Cur.input)])
            /\ Suspend
    /\ UNCHANGED <<env, proc, fs, now, uuids, sess, emits, faults, limit,
                   evBy>>

-----------------------------------------------------------------------------
(* log_call_summary: lines 152-155                                         *)

SummaryEvent(input) == [type |-> "call_summary", summary |-> input.summary]

LogSummaryLog ==
    /\ At("log_call_summary", "log")
    /\ \E ok \in DiskOutcomes :
         /\ Write(appendEvent(SummaryEvent(Cur.input)), ok)
         /\ IF ok THEN Goto("return") ELSE Finish(Throw(StorageError))
    /\ Recorded(running, Cur.sess)
    /\ UNCHANGED <<env, proc, now, uuids, sess, gateway, emits, limit>>

LogSummaryReturn ==
    /\ At("log_call_summary", "return")
    /\ Finish(backgroundResult("Summary logged."))
    /\ UNCHANGED <<env, proc, fs, now, uuids, sess, gateway, emits, faults,
                   limit, evBy>>

-----------------------------------------------------------------------------
(* The Messaging Gateway answers a pending request; the awaiting execute   *)
(* resumes: lines 108 and 142, or the rejection propagates                 *)

GatewayError == "Twilio request failed"

SentText(tool, sid) ==
    IF tool = "send_sms_to_number"
    THEN "SMS sent: sid=" \o sid
    ELSE "Escalation SMS sent: sid=" \o sid

MutSwallowGatewayError(tool, accepted, sid) ==
    IF accepted
    THEN backgroundResult(SentText(tool, sid))
    ELSE backgroundResult(IF tool = "send_sms_to_number"
                          THEN SmsSkipped ELSE EscalationSkipped)

\* what execute does once the awaited promise settles
AfterAwait(tool, accepted, sid) ==
    IF accepted
    THEN backgroundResult(SentText(tool, sid))
    ELSE Throw(GatewayError)

GatewayReply(r, accepted) ==
    /\ Idle
    /\ r \in 1..Len(gateway)
    /\ gateway[r].state = "pending"
    /\ gateway' = [gateway EXCEPT ![r].state =
                      IF accepted THEN "accepted" ELSE "rejected"]
    /\ LET c == gateway[r].call
       IN  calls' = [calls EXCEPT
                       ![c].pc = "done",
                       ![c].result = AfterAwait(calls[c].tool, accepted,
                                                "SM" \o ToString(r))]
    /\ UNCHANGED <<env, proc, fs, now, uuids, sess, running, emits, faults,
                   limit, evBy>>

-----------------------------------------------------------------------------

Next ==
    \/ Startup
    \/ \E s \in Sessions : AcceptChannel(s)
    \/ \E s \in Sessions : ConnectOk(s)
    \/ \E s \in Sessions : ConnectFail(s)
    \/ \E s \in Sessions, evt \in TransportEvts : TransportEvent(s, evt)
    \/ \E s \in Sessions : SessionError(s, "Error: backend fault")
    \/ \E s \in Sessions : ChannelClose(s)
    \/ \E s \in Sessions, tool \in Tools :
          \E raw \in RawArgs(tool) : ToolInvoke(s, tool, raw)
    \/ CreateLeadBuild
    \/ CreateLeadAppend
    \/ CreateLeadReturn
    \/ SendSmsAssert
    \/ SendSmsLog
    \/ SendSmsGate
    \/ EscalateLog
    \/ EscalateGate
    \/ LogSummaryLog
    \/ LogSummaryReturn
    \/ \E r \in 1..MaxCalls, accepted \in BOOLEAN : GatewayReply(r, accepted)

Spec == Init /\ [][Next]_vars

-----------------------------------------------------------------------------
(* Observations used by the properties                                     *)

CallIds == 1..Len(calls)

IsTool(c, tool) == calls[c].tool = tool

\* the arguments passed the tool's schema, so execute was entered
Entered(c) == calls[c].result # Throw(SchemaError)

Done(c) == calls[c].pc = "done"

\* the format the specification requires of a destination number
WellFormed(phone) ==
    /\ Len(phone) >= 11
    /\ SubSeq(phone, 1, 1) = "+"

\* the environment supplies client credentials and a from-number
CredentialsPresent ==
    /\ env.TWILIO_ACCOUNT_SID \notin {Undef, ""}
    /\ env.TWILIO_AUTH_TOKEN \notin {Undef, ""}
    /\ env.TWILIO_FROM_NUMBER \notin {Undef, ""}

\* lines of events.jsonl appended by call c, all of them and by type
EventsOf(c) == {i \in 1..Len(Events) : evBy[i].call = c}

EventsOfType(c, type) == {i \in EventsOf(c) : Events[i].json.type = type}

\* lines of leads.jsonl carrying the identifier call c generated
LeadsOf(c) ==
    {i \in 1..Len(Leads) :
        /\ "id" \in DOMAIN calls[c].lead
        /\ "id" \in DOMAIN Leads[i].json
        /\ Leads[i].json.id = calls[c].lead.id}

\* send requests call c issued to the Messaging Gateway
RequestsOf(c) == {r \in 1..Len(gateway) : gateway[r].call = c}

\* the storage write of call c raised
StorageFaulted(c) == calls[c].result = Throw(StorageError)

\* the type of event each tool logs
EventTypeOf(tool) ==
    CASE tool = "send_sms_to_number" -> "sms_attempt"
      [] tool = "escalate_to_oncall" -> "escalation"
      [] tool = "log_call_summary" -> "call_summary"
      [] tool = "create_lead" -> "none"

-----------------------------------------------------------------------------
(* C1: a send_sms_to_number call whose destination number lacks the        *)
(* leading '+' or has fewer than 11 characters fails with the validation   *)
(* error; no event is appended by that call and no request reaches the     *)
(* gateway, with or without gateway credentials.                           *)

C1_MalformedNumberRejected ==
    \A c \in CallIds :
        (IsTool(c, "send_sms_to_number") /\ Entered(c)
         /\ ~WellFormed(calls[c].input.to))
        => /\ EventsOf(c) = {}
           /\ RequestsOf(c) = {}
           /\ calls[c].pc \in {"assert", "done"}
           /\ Done(c) => calls[c].result = Throw(E164Error)

C1_Witness ==
    \E c \in CallIds :
        /\ IsTool(c, "send_sms_to_number")
        /\ calls[c].input.to = "5551234567"
        /\ CredentialsPresent
        /\ Done(c)
        /\ calls[c].result = Throw(E164Error)

-----------------------------------------------------------------------------
(* C2: every tool that hands a destination number to the gateway           *)
(* validates it: with a malformed destination (the `to` argument of        *)
(* send_sms_to_number, the configured on-call number of                    *)
(* escalate_to_oncall) the call writes no event and issues no request.     *)

Destination(c) ==
    IF IsTool(c, "send_sms_to_number")
    THEN calls[c].input.to
    ELSE env.ONCALL_PHONE

C2_EveryDestinationValidated ==
    \A c \in CallIds :
        (calls[c].tool \in {"send_sms_to_number", "escalate_to_oncall"}
         /\ Entered(c) /\ ~WellFormed(Destination(c)))
        => /\ EventsOf(c) = {}
           /\ RequestsOf(c) = {}
           /\ Done(c) => calls[c].result = Throw(E164Error)

-----------------------------------------------------------------------------
(* C3: a send_sms_to_number call with a well-formed number and a           *)
(* configured gateway appends exactly one sms_attempt event, before the    *)
(* send request is issued; the event carries the destination and the       *)
(* first 80 characters of the message (all of it when shorter); at most    *)
(* one send request is issued per call.                                    *)

FirstChars(m, n) == IF Len(m) <= n THEN m ELSE SubSeq(m, 1, n)

\* the call is past its logging statement
PastLog(c) ==
    \/ calls[c].pc \in {"gate", "await", "return"}
    \/ Done(c) /\ ~StorageFaulted(c)

C3_OneAttemptBeforeSend ==
    \A c \in CallIds :
        (IsTool(c, "send_sms_to_number") /\ Entered(c) /\ CredentialsPresent
         /\ WellFormed(calls[c].input.to))
        => /\ Cardinality(EventsOf(c)) <= 1
           /\ PastLog(c) => Cardinality(EventsOfType(c, "sms_attempt")) = 1
           /\ RequestsOf(c) # {}
                 => Cardinality(EventsOfType(c, "sms_attempt")) = 1
           /\ Cardinality(RequestsOf(c)) <= 1
           /\ (Done(c) /\ ~StorageFaulted(c)) => Cardinality(RequestsOf(c)) = 1
           /\ \A i \in EventsOf(c) :
                 /\ Events[i].json.type = "sms_attempt"
                 /\ Events[i].json.to = calls[c].input.to
                 /\ Events[i].json.messagePreview =
                        FirstChars(calls[c].input.message, 80)
                 /\ Events[i].eol = "\n"

C3_Witness ==
    \E c \in CallIds :
        /\ IsTool(c, "send_sms_to_number")
        /\ calls[c].input.message = LongMessage
        /\ Len(calls[c].input.message) > 80
        /\ calls[c].pc = "await"
        /\ Cardinality(RequestsOf(c)) = 1
        /\ \E i \in EventsOf(c) : Len(Events[i].json.messagePreview) = 80

-----------------------------------------------------------------------------
(* C4: without gateway credentials or without a from-number,               *)
(* send_sms_to_number (well-formed number) and escalate_to_oncall return   *)
(* the explicit skipped result, issue no send request, and have appended   *)
(* exactly one event of their type.  (A call whose storage write raised    *)
(* is the storage-fault case, not this one.)                               *)

SkippedResult(tool) ==
    IF tool = "send_sms_to_number"
    THEN [kind |-> "returned", text |-> "Twilio not configured; SMS skipped."]
    ELSE [kind |-> "returned",
          text |-> "Twilio not configured; escalation SMS skipped."]

SendsMessage(c) ==
    \/ IsTool(c, "send_sms_to_number") /\ WellFormed(calls[c].input.to)
    \/ IsTool(c, "escalate_to_oncall")

C4_UnconfiguredGatewaySkips ==
    ~CredentialsPresent =>
        /\ gateway = <<>>
        /\ \A c \in CallIds :
              (SendsMessage(c) /\ Entered(c) /\ Done(c) /\ ~StorageFaulted(c))
              => /\ calls[c].result = SkippedResult(calls[c].tool)
                 /\ Cardinality(EventsOf(c)) = 1
                 /\ Cardinality(
                      EventsOfType(c, EventTypeOf(calls[c].tool))) = 1

C4_Witness ==
    /\ ~CredentialsPresent
    /\ \E c, d \in CallIds :
          /\ IsTool(c, "send_sms_to_number")
          /\ IsTool(d, "escalate_to_oncall")
          /\ calls[c].result = SkippedResult("send_sms_to_number")
          /\ calls[d].result = SkippedResult("escalate_to_oncall")
          /\ Cardinality(EventsOf(c)) = 1
          /\ Cardinality(EventsOf(d)) = 1

-----------------------------------------------------------------------------
(* C5: a tool invoked with valid arguments writes exactly one record of    *)
(* its kind (a Lead for create_lead, an event of its type for the other    *)
(* three) and never more; the record is in the store at every moment from  *)
(* which the tool's result can be returned, and whenever a result has      *)
(* been returned.                                                          *)

ValidArgs(c) ==
    /\ Entered(c)
    /\ IsTool(c, "send_sms_to_number") => WellFormed(calls[c].input.to)

RecordsOf(c) ==
    IF IsTool(c, "create_lead")
    THEN LeadsOf(c)
    ELSE EventsOfType(c, EventTypeOf(calls[c].tool))

\* records call c wrote that are not of its kind
StrayRecordsOf(c) ==
    IF IsTool(c, "create_lead")
    THEN EventsOf(c)
    ELSE EventsOf(c) \ RecordsOf(c)

C5_OneRecordBeforeResult ==
    \A c \in CallIds :
        ValidArgs(c)
        => /\ Cardinality(RecordsOf(c)) <= 1
           /\ StrayRecordsOf(c) = {}
           /\ PastLog(c) => Cardinality(RecordsOf(c)) = 1
           /\ calls[c].result.kind = "returned"
                 => Cardinality(RecordsOf(c)) = 1

C5_Witness ==
    \E c, d \in CallIds :
        /\ IsTool(c, "create_lead")
        /\ IsTool(d, "log_call_summary")
        /\ calls[c].result.kind = "returned"
        /\ calls[d].result.kind = "returned"
        /\ Cardinality(LeadsOf(c)) = 1
        /\ Cardinality(EventsOfType(d, "call_summary")) = 1

-----------------------------------------------------------------------------
(* C6: session teardown is idempotent.  Every teardown invocation (a       *)
(* close notification of the audio channel, a backend error) leaves the    *)
(* backend connection and both subscriptions released, and an invocation   *)
(* on a session already torn down changes nothing: no event is appended,   *)
(* no exception is raised.                                                 *)

\* teardown has been invoked on s at least once
Ended(s) == sess[s].closes > 0 \/ sess[s].errors > 0

TeardownStep(s) ==
    \/ sess'[s].closes > sess[s].closes
    \/ sess'[s].errors > sess[s].errors

Released(s) ==
    /\ sess[s].listeners = {}
    /\ sess[s].conn \notin {"connecting", "connected"}

C6_TeardownIdempotent ==
    [][\A s \in Sessions :
          TeardownStep(s)
          => /\ Released(s)'
             /\ Ended(s) => /\ Events' = Events
                            /\ sess'[s].listeners = sess[s].listeners
                            /\ sess'[s].conn = sess[s].conn
                            /\ ~sess'[s].uncaught]_vars

-----------------------------------------------------------------------------
(* C7: once a session has ended it accepts no further tool invocation and  *)
(* its listeners are released; a Lead written before the end stays in the  *)
(* Lead Store, and no call_summary event of that session is written        *)
(* afterwards.                                                             *)

CallsOfSession(s) == {c \in CallIds : calls[c].sess = s}

SummariesOfSession(s) ==
    {i \in 1..Len(Events) :
        evBy[i].sess = s /\ Events[i].json.type = "call_summary"}

C7_EndedSessionIsInert ==
    [][\A s \in Sessions :
          Ended(s)
          => /\ CallsOfSession(s)' = CallsOfSession(s)
             /\ SummariesOfSession(s)' = SummariesOfSession(s)
             /\ sess'[s].listeners = {}
             /\ Len(Leads') >= Len(Leads)
             /\ SubSeq(Leads', 1, Len(Leads)) = Leads]_vars

-----------------------------------------------------------------------------
(* C8: concurrent sessions that each create a lead leave one complete      *)
(* line per successful create_lead call in leads.jsonl, with pairwise      *)
(* distinct identifiers, whatever the interleaving: no line is lost,       *)
(* duplicated or damaged.                                                  *)

\* create_lead calls whose appendLead has returned
LeadWriters ==
    {c \in CallIds :
        /\ IsTool(c, "create_lead")
        /\ \/ calls[c].pc = "return"
           \/ Done(c) /\ calls[c].result.kind = "returned"}

C8_ConcurrentLeadsAllStored ==
    /\ Len(Leads) = Cardinality(LeadWriters)
    /\ \A c \in LeadWriters : Cardinality(LeadsOf(c)) = 1
    /\ \A i, j \in 1..Len(Leads) :
          i # j => Leads[i].json.id # Leads[j].json.id
    /\ \A i \in 1..Len(Leads) :
          /\ Leads[i].eol = "\n"
          /\ \E c \in LeadWriters :
                /\ LeadsOf(c) = {i}
                /\ DOMAIN Leads[i].json =
                      DOMAIN calls[c].input \cup
                      {"id", "createdAt", "businessName", "source", "urgency"}
                /\ \A k \in DOMAIN calls[c].input :
                      Leads[i].json[k] = calls[c].input[k]

C8_Witness ==
    \E c, d \in CallIds :
        /\ IsTool(c, "create_lead") /\ IsTool(d, "create_lead")
        /\ calls[c].sess # calls[d].sess
        /\ calls[c].input # calls[d].input
        /\ calls[c].result.kind = "returned"
        /\ calls[d].result.kind = "returned"
        /\ Len(Leads) = 2
        /\ Leads[1].json.id # Leads[2].json.id

-----------------------------------------------------------------------------
(* C9: an escalate_to_oncall call appends exactly one escalation event,    *)
(* before any gateway request; with the gateway configured it issues       *)
(* exactly one request, addressed to the configured on-call number and     *)
(* never to a number taken from the arguments; create_lead followed by     *)
(* escalate_to_oncall leaves exactly one Lead and one escalation event.    *)

EscalationsInLog ==
    {i \in 1..Len(Events) : Events[i].json.type = "escalation"}

\* Scenario A has run to its end: call 1 created the emergency lead,
\* call 2 escalated it, both in one session
ScenarioADone ==
    /\ Len(calls) = 2
    /\ IsTool(1, "create_lead") /\ IsTool(2, "escalate_to_oncall")
    /\ calls[1].sess = calls[2].sess
    /\ calls[1].input.urgency = "emergency"
    /\ calls[1].result.kind = "returned"
    /\ Done(2) /\ ~StorageFaulted(2)

C9_EscalationGoesToOncall ==
    /\ \A c \in CallIds :
          (IsTool(c, "escalate_to_oncall") /\ Entered(c))
          => /\ Cardinality(EventsOf(c)) <= 1
             /\ RequestsOf(c) # {}
                   => Cardinality(EventsOfType(c, "escalation")) = 1
             /\ Cardinality(RequestsOf(c)) <= 1
             /\ (CredentialsPresent /\ Done(c) /\ ~StorageFaulted(c))
                   => Cardinality(RequestsOf(c)) = 1
             /\ \A r \in RequestsOf(c) :
                   /\ gateway[r].msg.to = env.ONCALL_PHONE
                   /\ gateway[r].msg.from = env.TWILIO_FROM_NUMBER
    /\ ScenarioADone
          => /\ Len(Leads) = 1
             /\ Cardinality(EscalationsInLog) = 1
             /\ CredentialsPresent
                   => /\ Len(gateway) = 1
                      /\ gateway[1].msg.to = env.ONCALL_PHONE
             /\ ~CredentialsPresent => gateway = <<>>

C9_Witness ==
    /\ ScenarioADone
    /\ CredentialsPresent
    /\ calls[2].input.issue = "burst pipe"
    /\ calls[2].input.serviceAddress = "12 Elm St"
    /\ calls[2].result.kind = "returned"
    /\ Len(gateway) = 1
    /\ gateway[1].state = "accepted"

-----------------------------------------------------------------------------
(* C10: when the gateway rejects a request (or cannot be reached), the     *)
(* call that issued it ends by raising, never with a returned result; its  *)
(* event was appended before, and it issued that one request only.         *)

C10_GatewayFailureSurfaces ==
    /\ \A r \in 1..Len(gateway) :
          gateway[r].state = "rejected"
          => LET c == gateway[r].call
             IN  /\ Done(c)
                 /\ calls[c].result.kind = "threw"
                 /\ RequestsOf(c) = {r}
                 /\ Cardinality(
                      EventsOfType(c, EventTypeOf(calls[c].tool))) = 1
    /\ \A c \in CallIds :
          (calls[c].tool \in {"send_sms_to_number", "escalate_to_oncall"}
           /\ calls[c].result.kind = "returned"
           /\ calls[c].result # SkippedResult(calls[c].tool))
          => /\ Cardinality(RequestsOf(c)) = 1
             /\ \A r \in RequestsOf(c) : gateway[r].state = "accepted"

C10_Witness ==
    \E r, q \in 1..Len(gateway) :
        /\ gateway[r].state = "rejected"
        /\ gateway[q].state = "rejected"
        /\ IsTool(gateway[r].call, "send_sms_to_number")
        /\ IsTool(gateway[q].call, "escalate_to_oncall")
        /\ calls[gateway[r].call].result.kind = "threw"
        /\ calls[gateway[q].call].result.kind = "threw"

-----------------------------------------------------------------------------
(* C11: arguments are validated before any side effect, for all four       *)
(* tools.  A call whose arguments violate the schema (an urgency outside   *)
(* low/normal/emergency, an SMS message of more than 480 characters, a     *)
(* summary of more than 2000 characters) fails with the validation error   *)
(* and has written no Lead, appended no event and issued no gateway        *)
(* request; an urgency is defaulted to normal only when none was given.    *)

ViolatesSchema(c) ==
    \/ /\ IsTool(c, "create_lead")
       /\ "urgency" \in DOMAIN calls[c].raw
       /\ calls[c].raw.urgency \notin {"low", "normal", "emergency"}
    \/ /\ IsTool(c, "send_sms_to_number")
       /\ Len(calls[c].raw.message) > 480
    \/ /\ IsTool(c, "log_call_summary")
       /\ Len(calls[c].raw.summary) > 2000

C11_ValidationBeforeSideEffects ==
    \A c \in CallIds :
        /\ ViolatesSchema(c)
           => /\ Done(c)
              /\ calls[c].result = Throw(SchemaError)
              /\ calls[c].lead = <<>>
              /\ LeadsOf(c) = {}
              /\ EventsOf(c) = {}
              /\ RequestsOf(c) = {}
        /\ (IsTool(c, "create_lead") /\ ~ViolatesSchema(c))
           => calls[c].input.urgency =
                 IF "urgency" \in DOMAIN calls[c].raw
                 THEN calls[c].raw.urgency
                 ELSE "normal"

C11_Witness ==
    \E c, d \in CallIds :
        /\ IsTool(c, "send_sms_to_number")
        /\ Len(calls[c].raw.message) = 481
        /\ WellFormed(calls[c].raw.to)
        /\ IsTool(d, "log_call_summary")
        /\ Len(calls[d].raw.summary) = 2001
        /\ calls[c].result = Throw(SchemaError)
        /\ calls[d].result = Throw(SchemaError)
        /\ CredentialsPresent
        /\ Leads = <<>>
        /\ gateway = <<>>

-----------------------------------------------------------------------------
(* C12: a fault of the log sink while the bridge records a transport       *)
(* event or a session error stays inside the bridge: the listener          *)
(* completes normally (logging is best effort), so no exception is raised  *)
(* into the session that emitted the event, in any session.                *)

\* the listeners of session s have let an exception out
RaisedPastListener(s) == sess[s].uncaught

C12_LogFaultStaysInBridge ==
    \A s \in Sessions : ~RaisedPastListener(s)

-----------------------------------------------------------------------------
(* C13: a backend session error terminates the session.  The step that     *)
(* handles the error logs a session_error event (unless the write itself   *)
(* failed) and leaves the session ended: its backend connection is no      *)
(* longer held; from then on the session is never connected again and no   *)
(* tool is invoked in it.                                                  *)

SessionErrorsOf(s) ==
    {i \in 1..Len(Events) :
        evBy[i].sess = s /\ Events[i].json.type = "session_error"}

C13_ErrorTerminatesSession ==
    [][\A s \in Sessions :
          /\ sess'[s].errors > sess[s].errors
             => /\ \/ Cardinality(SessionErrorsOf(s)') =
                        Cardinality(SessionErrorsOf(s)) + 1
                   \/ faults' > faults
                /\ sess'[s].conn \notin {"connecting", "connected"}
          /\ sess[s].errors > 0
             => /\ sess'[s].conn \notin {"connecting", "connected"}
                /\ CallsOfSession(s)' = CallsOfSession(s)]_vars

-----------------------------------------------------------------------------
(* C14: a tool call that is in flight when its session ends runs to        *)
(* completion, but nothing is handed back to the ended session: when the   *)
(* call completes, no result and no error reaches the session, and no      *)
(* further gateway request is issued for it.                               *)

\* call c awaits the gateway and its session has logged an error since
\* the call was invoked
InFlightAtEnd(c) ==
    /\ calls[c].pc = "await"
    /\ \E i \in SessionErrorsOf(calls[c].sess) : calls[c].at < evBy[i].at

C14_InFlightResultDiscarded ==
    [][\A c \in CallIds :
          (InFlightAtEnd(c) /\ Done(c)')
          => /\ calls'[c].result = Pending
             /\ RequestsOf(c)' = RequestsOf(c)]_vars

-----------------------------------------------------------------------------
(* C15: create_lead confirms only what is stored.  A create_lead call      *)
(* whose append to leads.jsonl failed ends with a tool error and never     *)
(* with the confirmation; the confirmation "Lead stored with id <id>" is   *)
(* returned, or about to be returned, only when the line with that id is   *)
(* in leads.jsonl.                                                         *)

Confirmation(c) ==
    [kind |-> "returned", text |-> "Lead stored with id " \o calls[c].lead.id]

C15_NoConfirmationWithoutLead ==
    \A c \in CallIds :
        (IsTool(c, "create_lead") /\ Entered(c))
        => /\ (Done(c) /\ LeadsOf(c) = {})
                 => /\ calls[c].result.kind = "threw"
                    /\ calls[c].result.text = "EIO: write failed"
           /\ (calls[c].pc = "return" \/ calls[c].result.kind = "returned")
                 => /\ Cardinality(LeadsOf(c)) = 1
                    /\ \A i \in LeadsOf(c) : Leads[i].eol = "\n"
           /\ calls[c].result.kind = "returned"
                 => calls[c].result = Confirmation(c)

C15_Witness ==
    \E c \in CallIds :
        /\ IsTool(c, "create_lead")
        /\ Done(c)
        /\ calls[c].lead # <<>>
        /\ fs.leads.exists
        /\ LeadsOf(c) = {}
        /\ calls[c].result.kind = "threw"

-----------------------------------------------------------------------------
(* C16: within one session the events are in events.jsonl in the order in  *)
(* which they occurred, whatever lines of other sessions lie between       *)
(* them: every line is the record of the occurrence that wrote it, and of  *)
(* two lines of one session the earlier line belongs to the earlier        *)
(* occurrence (a tool's event counts from the tool's invocation).          *)

BridgeEventTypes == {"realtime_connected", "transport_event", "session_error"}

\* line i is a record of the occurrence the history attributes it to
RecordOfItsOccurrence(i) ==
    IF evBy[i].call = 0
    THEN Events[i].json.type \in BridgeEventTypes
    ELSE /\ evBy[i].call \in CallIds
         /\ evBy[i].sess = calls[evBy[i].call].sess
         /\ evBy[i].at = calls[evBy[i].call].at
         /\ Events[i].json.type = EventTypeOf(calls[evBy[i].call].tool)

C16_SessionEventsInOccurrenceOrder ==
    /\ Len(evBy) = Len(Events)
    /\ \A i \in 1..Len(Events) : RecordOfItsOccurrence(i)
    /\ \A i, j \in 1..Len(Events) :
          (i < j /\ evBy[i].sess = evBy[j].sess) => evBy[i].at < evBy[j].at

C16_Witness ==
    \E i, k, j \in 1..Len(Events) :
        /\ i < k /\ k < j
        /\ evBy[i].sess = evBy[j].sess
        /\ evBy[k].sess # evBy[i].sess
        /\ Events[i].json.type = "transport_event"
        /\ evBy[j].call # 0
        /\ Events[j].json.type \in {"sms_attempt", "escalation", "call_summary"}

-----------------------------------------------------------------------------
(* C17: each accepted audio channel makes one backend connection, and      *)
(* realtime_connected is logged at most once per channel, only once the    *)
(* connect has succeeded: a channel that is not accepted, still            *)
(* connecting, or whose connect failed has no realtime_connected event; a  *)
(* channel whose handler ran to its end has exactly one.                   *)

ConnectedEventsOf(s) ==
    {i \in 1..Len(Events) :
        evBy[i].sess = s /\ Events[i].json.type = "realtime_connected"}

C17_OneConnectionPerChannel ==
    /\ \A s \in Sessions :
          /\ Cardinality(ConnectedEventsOf(s)) <= 1
          /\ sess[s].conn \in {"none", "connecting", "failed"}
                => ConnectedEventsOf(s) = {}
          /\ ConnectedEventsOf(s) # {} => sess[s].conn = "connected"
          /\ sess[s].handler = "returned"
                => /\ sess[s].conn = "connected"
                   /\ Cardinality(ConnectedEventsOf(s)) = 1
    /\ Cardinality({i \in 1..Len(Events) :
                       Events[i].json.type = "realtime_connected"})
          <= Cardinality({s \in Sessions : sess[s].conn = "connected"})

C17_Witness ==
    \E s, t \in Sessions :
        /\ sess[s].conn = "connected"
        /\ sess[s].handler = "returned"
        /\ Cardinality(ConnectedEventsOf(s)) = 1
        /\ sess[t].conn = "failed"
        /\ ConnectedEventsOf(t) = {}

-----------------------------------------------------------------------------
(* C18: the process serves only when ONCALL_PHONE and OPENAI_API_KEY are   *)
(* both set to a non-empty value; when they are, it can start serving      *)
(* whether or not the gateway credentials are set.                         *)

RequiredPresent ==
    /\ env.ONCALL_PHONE \notin {Undef, ""}
    /\ env.OPENAI_API_KEY \notin {Undef, ""}

C18_ServesOnlyWithRequiredConfig ==
    /\ proc = "serving" => RequiredPresent
    /\ ~RequiredPresent
          => /\ sess = [s \in Sessions |-> NoSession]
             /\ calls = <<>>
             /\ Events = <<>>
    /\ (proc = "starting" /\ RequiredPresent)
          => ENABLED (Startup /\ proc' = "serving")

C18_Witness ==
    /\ proc = "serving"
    /\ env.TWILIO_ACCOUNT_SID = Undef
    /\ env.TWILIO_AUTH_TOKEN = Undef
    /\ env.TWILIO_FROM_NUMBER = Undef
    /\ \E s \in Sessions : sess[s].conn = "connected"

-----------------------------------------------------------------------------
(* C19: a stored Lead reads back with the field values it was written      *)
(* with.  Each caller-supplied field has the supplied value; a field that  *)
(* was not supplied is absent from the line, not null; urgency is normal   *)
(* when unspecified; id, createdAt, businessName and source are the        *)
(* values the tool assigns, whatever keys the arguments carry.             *)

\* JSON.parse of a stored line
ReadBack(i) == Leads[i].json

GeneratedIds == {"uuid-" \o ToString(n) : n \in 1..uuids}

ConfiguredBusinessName ==
    IF env.BUSINESS_NAME \in {Undef, ""}
    THEN "NY Plumbing (Pilot)"
    ELSE env.BUSINESS_NAME

SuppliedFields(c) ==
    DOMAIN calls[c].raw \cap
    {"callerPhone", "callerName", "serviceAddress", "issue", "urgency",
     "preferredTime", "notes"}

C19_LeadRoundTrips ==
    \A c \in CallIds : \A i \in 1..Len(Leads) :
        (IsTool(c, "create_lead") /\ i \in LeadsOf(c))
        => /\ ReadBack(i) = calls[c].lead
           /\ DOMAIN ReadBack(i) =
                 SuppliedFields(c) \cup
                 {"id", "createdAt", "businessName", "source", "urgency"}
           /\ \A k \in SuppliedFields(c) : ReadBack(i)[k] = calls[c].raw[k]
           /\ \A k \in DOMAIN ReadBack(i) :
                 ReadBack(i)[k] \notin {Undef, "null"}
           /\ "urgency" \notin DOMAIN calls[c].raw
                 => ReadBack(i).urgency = "normal"
           /\ ReadBack(i).id \in GeneratedIds
           /\ ReadBack(i).createdAt = "T" \o ToString(now)
           /\ ReadBack(i).businessName = ConfiguredBusinessName
           /\ ReadBack(i).source = "twilio_call"

C19_Witness ==
    \E c \in CallIds : \E i \in LeadsOf(c) :
        /\ IsTool(c, "create_lead")
        /\ {"id", "createdAt", "businessName", "source"}
              \subseteq DOMAIN calls[c].raw
        /\ "urgency" \notin DOMAIN calls[c].raw
        /\ calls[c].result.kind = "returned"
        /\ ReadBack(i).id # calls[c].raw.id
        /\ ReadBack(i).source # calls[c].raw.source
        /\ ReadBack(i).callerName = calls[c].raw.callerName
        /\ "issue" \notin DOMAIN ReadBack(i)
        /\ ReadBack(i).urgency = "normal"

-----------------------------------------------------------------------------
(* C20: leads.jsonl and events.jsonl are append-only.  Every step leaves   *)
(* each file with all the lines it had, unchanged and in place, and adds   *)
(* at most whole lines at its end; a file that exists is never removed or  *)
(* emptied, in particular not by ensureDataDir.                            *)

\* file g is file f with whole lines added at the end
Extends(f, g) ==
    /\ f.exists => g.exists
    /\ Len(g.data) >= Len(f.data)
    /\ SubSeq(g.data, 1, Len(f.data)) = f.data
    /\ \A i \in (Len(f.data) + 1)..Len(g.data) : g.data[i].eol = "\n"

C20_StoresAppendOnly ==
    [][/\ Extends(fs.leads, fs'.leads)
       /\ Extends(fs.events, fs'.events)
       /\ Extends(fs.leads, ensureDataDir(fs).leads)
       /\ ensureDataDir(fs).leads.data = fs.leads.data
       /\ ensureDataDir(fs).events = fs.events]_vars

C20_Witness ==
    /\ Len(Leads) = 2
    /\ Len(Events) >= 2
    /\ \E c \in CallIds : LeadsOf(c) = {1}

=============================================================================
